---- MODULE Spec2Model ----
(***************************************************************************)
(* Model of hip_flask/extension.py: the HipExtension registry of meta,     *)
(* script and link tags, the tag classes' constructors and their           *)
(* serialisation to HTML (as_tag / _as_tag).                               *)
(*                                                                         *)
(* Python values are tagged records, so that None, str, bool and list keep *)
(* their identity: truthiness, isinstance(..., list), == and f-string      *)
(* formatting are computed as Python computes them.                        *)
(***************************************************************************)
EXTENDS Integers, Sequences, FiniteSets, TLC

VARIABLES
    metas,      \* HipExtension.metas   (list of Meta objects)
    scripts,    \* HipExtension.scripts (list of Script objects)
    links,      \* HipExtension.links   (list of Link objects)
    call,       \* the call the application made last: its name and arguments
    ret,        \* its outcome: the exception raised ("none" if none) and the value returned
    tpc,        \* concurrent callers: position of each thread inside its add call
    tlocal,     \* concurrent callers: the tag a thread has constructed and not yet appended
    tcalls,     \* concurrent callers: the calls each thread has finished, in call order
    hips,       \* several registries: the HipExtension objects created, in creation order
    app,        \* several registries: the Flask application they are bound to
    lastBound   \* several registries: the registry _init_app ran on last (0: none yet)

vars == <<metas, scripts, links, call, ret, tpc, tlocal, tcalls, hips, app, lastBound>>

regVars == <<metas, scripts, links>>
threadVars == <<tpc, tlocal, tcalls>>
bindVars == <<hips, app, lastBound>>

\* ---------------------------------------------------------------- bounds

\* Most tags the registry holds in a run (the three lists together).
MaxTags == 2
\* Most add calls the concurrent callers make in a run (all callers together).
MaxCalls == 3
\* Number of concurrent callers.
NumThreads == 2
\* Most HipExtension objects created for the one application in a run.
MaxHips == 2

\* ---------------------------------------------------------------- Python values

None == [t |-> "none"]
S(s) == [t |-> "str", v |-> s]
B(b) == [t |-> "bool", v |-> b]
L(q) == [t |-> "list", v |-> q]

\* bool(x): None, "", False and [] are falsy.
Truthy(x) ==
    CASE x.t = "none" -> FALSE
      [] x.t = "str"  -> x.v # ""
      [] x.t = "bool" -> x.v
      [] x.t = "list" -> x.v # <<>>

\* isinstance(x, list)
IsList(x) == x.t = "list"

\* sep.join(q) for a list q of str
RECURSIVE Join(_, _)
Join(sep, q) ==
    IF q = <<>> THEN ""
    ELSE IF Len(q) = 1 THEN q[1]
    ELSE q[1] \o sep \o Join(sep, Tail(q))

\* repr() of each element of a list of str, for the formatting of a list
RECURSIVE ReprAll(_)
ReprAll(q) == IF q = <<>> THEN <<>> ELSE <<"'" \o q[1] \o "'">> \o ReprAll(Tail(q))

\* format(x) as an f-string replacement field {x} produces it
Format(x) ==
    CASE x.t = "none" -> "None"
      [] x.t = "str"  -> x.v
      [] x.t = "bool" -> IF x.v THEN "True" ELSE "False"
      [] x.t = "list" -> "[" \o Join(", ", ReprAll(x.v)) \o "]"

\* x == y on Python values: a list never equals a str, None equals only None
PyEq(x, y) == x = y

\* markupsafe.Markup(s) of a str: the same text, marked safe (no escaping).
Markup(s) == S(s)

\* list.append(x), as deduplicating (a set-like registry)
ListAppendDedup(q, x) ==
    IF \E i \in 1..Len(q) : q[i] = x THEN q ELSE Append(q, x)

\* list.insert(0, x)
ListInsertFront(q, x) == <<x>> \o q

\* list.append(x)
ListAppend(q, x) == Append(q, x)

\* ---------------------------------------------------------------- class Meta

\* Meta.__init__ without the name-or-charset check
Meta__init__NoCheck(name, content, charset, http_equiv) ==
    [exc |-> "none",
     obj |-> [name |-> name,
              charset |-> charset,
              content |-> IF IsList(content) THEN S(Join(", ", content.v)) ELSE content,
              http_equiv |-> http_equiv,
              _cache_meta |-> None]]

\* Meta.__init__: the exception raised, or the object constructed
Meta__init__(name, content, charset, http_equiv) ==
    IF ~Truthy(name) /\ ~Truthy(charset)
    THEN [exc |-> "ValueError", obj |-> None]
    ELSE [exc |-> "none",
          obj |-> [name |-> name,
                   charset |-> charset,
                   content |-> IF IsList(content) THEN S(Join(", ", content.v))
                               ELSE content,
                   http_equiv |-> http_equiv,
                   _cache_meta |-> None]]

\* Meta._as_tag: "".join(meta_parts), the parts joined with no separator
Meta__as_tag(self) ==
    LET open == "<meta "
        body == IF Truthy(self.charset)
                THEN "charset=\"" \o Format(self.charset) \o "\""
                ELSE (IF Truthy(self.http_equiv)
                      THEN "http-equiv=\"" \o Format(self.name) \o "\""
                      ELSE "name=\"" \o Format(self.name) \o "\"")
                     \o "content=\"" \o Format(self.content) \o "\""
    IN  open \o body \o ">"

\* ---------------------------------------------------------------- static URLs

\* The URL prefixes under which the application is served: flask.url_for
\* builds a static URL from the script root of the request being handled.
ScriptRoots == {"", "/app"}

\* flask.url_for('static', filename=filename), evaluated while the request
\* being handled has script root `root`
url_for(root, filename) == root \o "/static/" \o Format(filename)

\* ---------------------------------------------------------------- class Script

\* Script.__init__ (it raises nothing)
Script__init__(src, typ, static, asyn, defer, nomodule, policy, priority, integrity, crossorigin) ==
    [exc |-> "none",
     obj |-> [src |-> src,
              typ |-> typ,
              static |-> static,
              asyn |-> asyn,
              defer |-> defer,
              nomodule |-> nomodule,
              policy |-> policy,
              priority |-> priority,
              integrity |-> integrity,
              crossorigin |-> crossorigin,
              _cache_script |-> None]]

\* one optional attribute: name="value" when the value is truthy
Attr(name, value) ==
    IF Truthy(value) THEN " " \o name \o "=\"" \o Format(value) \o "\"" ELSE ""

\* one boolean attribute: the bare token when the value is truthy
Flag(name, value) == IF Truthy(value) THEN " " \o name ELSE ""

\* Script._as_tag, evaluated under script root `root`
Script__as_tag(self, root) ==
    LET script_src == IF Truthy(self.static) THEN url_for(root, self.src)
                      ELSE Format(self.src)
    IN  "<script src=\"" \o script_src \o "\""
        \o Attr("type", self.typ)
        \o Flag("async", self.asyn)
        \o Flag("defer", self.defer)
        \o Flag("nomodule", self.nomodule)
        \o Attr("referrerpolicy", self.policy)
        \o Attr("fetchpriority", self.priority)
        \o Attr("integrity", self.integrity)
        \o Attr("crossorigin", self.crossorigin)
        \o "></script>"

\* ---------------------------------------------------------------- class Link

REL_PRELOAD == S("preload")
REL_MODULE_PRELOAD == S("modulepreload")
REL_STYLESHEET == S("stylesheet")

\* Link.__init__: the exception raised, or the object constructed.  The
\* preload check compares the rel argument as given (not self.rel); the
\* hreflang check reads self.ref, an attribute no Link has.
Link__init__(href, rel, static, a, typ, policy, priority, integrity, crossorigin, sizes, media, lang, title, block, disabled) ==
    LET self == [href |-> href,
                 rel |-> IF IsList(rel) THEN S(Join(" ", rel.v)) ELSE rel,
                 static |-> static,
                 a |-> a,
                 typ |-> typ,
                 policy |-> policy,
                 priority |-> priority,
                 crossorigin |-> crossorigin,
                 integrity |-> integrity,
                 sizes |-> sizes,
                 media |-> media,
                 lang |-> lang,
                 title |-> title,
                 block |-> IF IsList(block) THEN S(Join(" ", block.v)) ELSE block,
                 disabled |-> disabled,
                 _cache_link |-> None]
    IN  IF PyEq(rel, REL_PRELOAD) /\ ~Truthy(self.a)
        THEN [exc |-> "ValueError", obj |-> None]
        ELSE IF Truthy(self.lang)
        THEN [exc |-> "AttributeError", obj |-> None]
        ELSE [exc |-> "none", obj |-> self]

\* Link._as_tag, evaluated under script root `root`
Link__as_tag(self, root) ==
    LET tag_href == IF Truthy(self.static) THEN url_for(root, self.href)
                    ELSE Format(self.href)
    IN  "<link href=\"" \o tag_href \o "\" rel=\"" \o Format(self.rel) \o "\""
        \o (IF Truthy(self.a) /\ PyEq(self.rel, REL_PRELOAD)
            THEN " as=\"" \o Format(self.a) \o "\""
            ELSE IF Truthy(self.a) /\ PyEq(self.rel, REL_MODULE_PRELOAD)
            THEN " as=\"" \o Format(self.a) \o "\""
            ELSE "")
        \o Attr("type", self.typ)
        \o Attr("crossorigin", self.crossorigin)
        \o Attr("integrity", self.integrity)
        \o Attr("referrerpolicy", self.policy)
        \o Attr("fetchpriority", self.priority)
        \o Attr("sizes", self.sizes)
        \o Attr("media", self.media)
        \o Attr("hreflang", self.lang)
        \o Attr("title", self.title)
        \o Attr("block", self.block)
        \o Flag("disabled", self.disabled)
        \o " />"

\* ---------------------------------------------------------------- class HipExtension

\* Flask(__name__) before any extension is bound: an empty extensions dict,
\* no attribute hip (0), no 'macros' entry in jinja_env.globals
FlaskApp ==
    [has_extensions |-> TRUE,
     extensions_hip |-> 0,
     hip |-> 0,
     has_macros |-> FALSE,
     macros |-> [k \in {} |-> 0]]

\* HipExtension.__init__: three empty lists
Init ==
    /\ metas = <<>>
    /\ scripts = <<>>
    /\ links = <<>>
    /\ call = [op |-> "__init__"]
    /\ ret = [exc |-> "none", val |-> None]
    /\ tpc = [t \in 1..NumThreads |-> "idle"]
    /\ tlocal = [t \in 1..NumThreads |-> None]
    /\ tcalls = [t \in 1..NumThreads |-> <<>>]
    /\ hips = <<>>
    /\ app = FlaskApp
    /\ lastBound = 0

\* The registry has room for one more tag (the bound of the model).
Room == Len(metas) + Len(scripts) + Len(links) < MaxTags

\* HipExtension._get_metas / _get_scripts / _get_links: the live lists
_get_metas == metas
_get_scripts == scripts
_get_links == links

\* The constructor call of HipExtension.meta: four positional arguments
meta_new(name, content, charset, http_equiv) ==
    Meta__init__(name, content, charset, http_equiv)

\* The constructor call of HipExtension.script: nine positional arguments,
\* which Script.__init__ binds to its first nine parameters after self
\* (src, typ, static, asyn, defer, nomodule, policy, priority, integrity);
\* crossorigin keeps its default.
script_new(src, typ, static, asyn, defer, policy, priority, integrity, crossorigin) ==
    Script__init__(src, typ, static, asyn, defer, policy, priority, integrity, crossorigin, None)

\* The constructor call of HipExtension.link: fifteen positional arguments
link_new(href, rel, static, a, typ, policy, priority, integrity, crossorigin, sizes, media, lang, title, block, disabled) ==
    Link__init__(href, rel, static, a, typ, policy, priority, integrity, crossorigin, sizes, media, lang, title, block, disabled)

\* HipExtension.meta: construct, then append; an exception of the
\* constructor leaves the method before the append
meta(name, content, charset, http_equiv) ==
    LET new_meta == meta_new(name, content, charset, http_equiv)
    IN  /\ new_meta.exc = "none" => Room
        /\ metas' = IF new_meta.exc = "none" THEN ListAppend(metas, new_meta.obj)
                    ELSE metas
        /\ ret' = [exc |-> new_meta.exc, val |-> None]
        /\ UNCHANGED <<scripts, links>>

\* HipExtension.http_equiv: self.meta(name, content, True), the True in
\* third position
http_equiv(name, content) == meta(name, content, B(TRUE), B(FALSE))

\* HipExtension.script
script(src, typ, static, asyn, defer, policy, priority, integrity, crossorigin) ==
    LET new_script == script_new(src, typ, static, asyn, defer, policy, priority, integrity, crossorigin)
    IN  /\ new_script.exc = "none" => Room
        /\ scripts' = IF new_script.exc = "none" THEN ListAppend(scripts, new_script.obj)
                      ELSE scripts
        /\ ret' = [exc |-> new_script.exc, val |-> None]
        /\ UNCHANGED <<metas, links>>

\* HipExtension.static_script
static_script(src, typ, asyn, defer, policy, priority, integrity, crossorigin) ==
    script(src, typ, B(TRUE), asyn, defer, policy, priority, integrity, crossorigin)

\* HipExtension.link
link(href, rel, static, a, typ, policy, priority, integrity, crossorigin, sizes, media, lang, title, block, disabled) ==
    LET new_link == link_new(href, rel, static, a, typ, policy, priority, integrity, crossorigin, sizes, media, lang, title, block, disabled)
    IN  /\ new_link.exc = "none" => Room
        /\ links' = IF new_link.exc = "none" THEN ListAppend(links, new_link.obj)
                    ELSE links
        /\ ret' = [exc |-> new_link.exc, val |-> None]
        /\ UNCHANGED <<metas, scripts>>

\* HipExtension.static_link
static_link(filename, rel, a, typ, policy, priority, integrity, crossorigin, sizes, media, lang, title, block, disabled) ==
    link(filename, rel, B(TRUE), a, typ, policy, priority, integrity, crossorigin, sizes, media, lang, title, block, disabled)

\* Meta.as_tag of the i-th meta: the cached markup if there is one, else
\* the markup built now, which is cached
Meta_as_tag(i) ==
    LET self == metas[i]
        built == Markup(Meta__as_tag(self))
    IN  /\ IF Truthy(self._cache_meta)
           THEN /\ ret' = [exc |-> "none", val |-> self._cache_meta]
                /\ metas' = metas
           ELSE /\ ret' = [exc |-> "none", val |-> built]
                /\ metas' = [metas EXCEPT ![i]._cache_meta = built]
        /\ UNCHANGED <<scripts, links>>

\* Script.as_tag of the i-th script, called while handling a request with
\* script root `root`
Script_as_tag(i, root) ==
    LET self == scripts[i]
        built == Markup(Script__as_tag(self, root))
    IN  /\ IF Truthy(self._cache_script)
           THEN /\ ret' = [exc |-> "none", val |-> self._cache_script]
                /\ scripts' = scripts
           ELSE /\ ret' = [exc |-> "none", val |-> built]
                /\ scripts' = [scripts EXCEPT ![i]._cache_script = built]
        /\ UNCHANGED <<metas, links>>

\* Link.as_tag of the i-th link, called while handling a request with
\* script root `root`
Link_as_tag(i, root) ==
    LET self == links[i]
        built == Markup(Link__as_tag(self, root))
    IN  /\ IF Truthy(self._cache_link)
           THEN /\ ret' = [exc |-> "none", val |-> self._cache_link]
                /\ links' = links
           ELSE /\ ret' = [exc |-> "none", val |-> built]
                /\ links' = [links EXCEPT ![i]._cache_link = built]
        /\ UNCHANGED <<metas, scripts>>

\* ---------------------------------------------------------------- the application's calls

\* hip.meta(...) calls the application makes: keyword defaults filled in
MetaCalls ==
    { [name |-> None, content |-> S("hello"), charset |-> None, http_equiv |-> B(FALSE)],
      [name |-> S(""), content |-> S("hello"), charset |-> None, http_equiv |-> B(FALSE)],
      [name |-> S("description"), content |-> S("hello"), charset |-> None,
       http_equiv |-> B(FALSE)],
      [name |-> S("refresh"), content |-> L(<<"30", "url=/">>), charset |-> None,
       http_equiv |-> B(TRUE)],
      [name |-> None, content |-> None, charset |-> S("utf-8"), http_equiv |-> B(FALSE)],
      [name |-> S("description"), content |-> S("hello"), charset |-> S("utf-8"),
       http_equiv |-> B(FALSE)] }

\* hip.http_equiv(name, content) calls the application makes
HttpEquivCalls == { [name |-> S("refresh"), content |-> S("30")] }

\* The optional arguments of a script left at their defaults, and all given
ScriptPlain ==
    [typ |-> None, asyn |-> B(FALSE), defer |-> B(FALSE), policy |-> None,
     priority |-> None, integrity |-> None, crossorigin |-> None]
ScriptFull ==
    [typ |-> S("module"), asyn |-> B(TRUE), defer |-> B(TRUE), policy |-> S("origin"),
     priority |-> S("high"), integrity |-> S("sha384-x"), crossorigin |-> S("anonymous")]

\* hip.script(src, ...) calls the application makes
ScriptCalls ==
    { [src |-> S("app.js"), static |-> B(FALSE), o |-> ScriptPlain],
      [src |-> S("app.js"), static |-> B(FALSE), o |-> ScriptFull],
      [src |-> S("app.js"), static |-> B(TRUE), o |-> ScriptPlain] }

\* hip.static_script(src, ...) calls the application makes
StaticScriptCalls == { [src |-> S("app.js"), o |-> ScriptPlain] }

\* The optional arguments of a link left at their defaults, and all given
\* (lang apart)
LinkPlain ==
    [typ |-> None, policy |-> None, priority |-> None, integrity |-> None,
     crossorigin |-> None, sizes |-> None, media |-> None, title |-> None,
     block |-> None, disabled |-> B(FALSE)]
LinkFull ==
    [typ |-> S("text/css"), policy |-> S("origin"), priority |-> S("low"),
     integrity |-> S("sha384-y"), crossorigin |-> S("anonymous"),
     sizes |-> S("16x16"), media |-> S("print"), title |-> S("Main"),
     block |-> L(<<"render">>), disabled |-> B(TRUE)]

\* hip.link(href, rel, ...) calls the application makes
LinkCalls ==
    { [href |-> S("main.css"), rel |-> REL_STYLESHEET, static |-> B(FALSE), a |-> None,
       lang |-> None, o |-> LinkPlain],
      [href |-> S("main.css"), rel |-> REL_STYLESHEET, static |-> B(FALSE), a |-> None,
       lang |-> None, o |-> LinkFull],
      [href |-> S("main.css"), rel |-> REL_STYLESHEET, static |-> B(FALSE), a |-> None,
       lang |-> S("en"), o |-> LinkPlain],
      [href |-> S("main.css"), rel |-> REL_PRELOAD, static |-> B(FALSE), a |-> None,
       lang |-> None, o |-> LinkPlain],
      [href |-> S("main.css"), rel |-> REL_PRELOAD, static |-> B(FALSE), a |-> S("style"),
       lang |-> None, o |-> LinkPlain],
      [href |-> S("main.css"), rel |-> L(<<"preload">>), static |-> B(FALSE), a |-> None,
       lang |-> None, o |-> LinkPlain],
      [href |-> S("main.css"), rel |-> REL_STYLESHEET, static |-> B(TRUE), a |-> None,
       lang |-> None, o |-> LinkPlain] }

\* hip.static_link(filename, rel, ...) calls the application makes
StaticLinkCalls ==
    { [href |-> S("main.css"), rel |-> REL_STYLESHEET, a |-> None, lang |-> None,
       o |-> LinkPlain],
      [href |-> S("main.css"), rel |-> REL_PRELOAD, a |-> None, lang |-> None,
       o |-> LinkPlain] }

\* hip.meta(name, content, charset, http_equiv)
Do_meta ==
    \E c \in MetaCalls :
        /\ call' = [op |-> "meta", args |-> c]
        /\ meta(c.name, c.content, c.charset, c.http_equiv)
        /\ UNCHANGED <<threadVars, bindVars>>

\* hip.http_equiv(name, content)
Do_http_equiv ==
    \E c \in HttpEquivCalls :
        /\ call' = [op |-> "http_equiv", args |-> c]
        /\ http_equiv(c.name, c.content)
        /\ UNCHANGED <<threadVars, bindVars>>

\* hip.script(src, typ, static, asyn, defer, policy, priority, integrity, crossorigin)
Do_script ==
    \E c \in ScriptCalls :
        /\ call' = [op |-> "script", args |-> c]
        /\ script(c.src, c.o.typ, c.static, c.o.asyn, c.o.defer, c.o.policy,
                  c.o.priority, c.o.integrity, c.o.crossorigin)
        /\ UNCHANGED <<threadVars, bindVars>>

\* hip.static_script(src, typ, asyn, defer, policy, priority, integrity, crossorigin)
Do_static_script ==
    \E c \in StaticScriptCalls :
        /\ call' = [op |-> "static_script",
                    args |-> [src |-> c.src, static |-> B(TRUE), o |-> c.o]]
        /\ static_script(c.src, c.o.typ, c.o.asyn, c.o.defer, c.o.policy,
                         c.o.priority, c.o.integrity, c.o.crossorigin)
        /\ UNCHANGED <<threadVars, bindVars>>

\* hip.link(href, rel, static, a, ..., lang, ...)
Do_link ==
    \E c \in LinkCalls :
        /\ call' = [op |-> "link", args |-> c]
        /\ link(c.href, c.rel, c.static, c.a, c.o.typ, c.o.policy, c.o.priority,
                c.o.integrity, c.o.crossorigin, c.o.sizes, c.o.media, c.lang,
                c.o.title, c.o.block, c.o.disabled)
        /\ UNCHANGED <<threadVars, bindVars>>

\* hip.static_link(filename, rel, a, ..., lang, ...)
Do_static_link ==
    \E c \in StaticLinkCalls :
        /\ call' = [op |-> "static_link",
                    args |-> [href |-> c.href, rel |-> c.rel, static |-> B(TRUE),
                              a |-> c.a, lang |-> c.lang, o |-> c.o]]
        /\ static_link(c.href, c.rel, c.a, c.o.typ, c.o.policy, c.o.priority,
                       c.o.integrity, c.o.crossorigin, c.o.sizes, c.o.media, c.lang,
                       c.o.title, c.o.block, c.o.disabled)
        /\ UNCHANGED <<threadVars, bindVars>>

\* a template calls as_tag() on an element of hip_metas()
Render_meta ==
    \E i \in 1..Len(_get_metas) :
        /\ call' = [op |-> "Meta.as_tag", i |-> i]
        /\ Meta_as_tag(i)
        /\ UNCHANGED <<threadVars, bindVars>>

\* a template calls as_tag() on an element of hip_scripts(), while a request
\* with script root `root` is handled
Render_script ==
    \E i \in 1..Len(_get_scripts), root \in ScriptRoots :
        /\ call' = [op |-> "Script.as_tag", i |-> i, root |-> root]
        /\ Script_as_tag(i, root)
        /\ UNCHANGED <<threadVars, bindVars>>

\* a template calls as_tag() on an element of hip_links(), while a request
\* with script root `root` is handled
Render_link ==
    \E i \in 1..Len(_get_links), root \in ScriptRoots :
        /\ call' = [op |-> "Link.as_tag", i |-> i, root |-> root]
        /\ Link_as_tag(i, root)
        /\ UNCHANGED <<threadVars, bindVars>>

Next ==
    \/ Do_meta
    \/ Do_http_equiv
    \/ Do_script
    \/ Do_static_script
    \/ Do_link
    \/ Do_static_link
    \/ Render_meta
    \/ Render_script
    \/ Render_link

Spec == Init /\ [][Next]_vars

\* ---------------------------------------------------------------- concurrent callers

\* Requests handled at the same time, each by a thread of its own, call the
\* add methods of the one registry.  A method runs in two steps: the
\* constructor call, which touches only the thread's own new object, and
\* list.append on the shared list, which CPython executes as one indivisible
\* operation on the list object (self.metas is mutated in place, never
\* copied and rebound).
Threads == 1..NumThreads

\* Calls begun so far, by all threads
Begun(t) == Len(tcalls[t]) + (IF tpc[t] = "idle" THEN 0 ELSE 1)

RECURSIVE BegunUpTo(_)
BegunUpTo(n) == IF n = 0 THEN 0 ELSE Begun(n) + BegunUpTo(n - 1)

\* The text that tells the k-th call of thread t from every other call: the
\* caller passes it as the tag's name, src or href
CallId(t, k) == "t" \o ToString(t) \o "c" \o ToString(k)

\* Thread t has left a method: the call is recorded in the thread's history
Finish(t, kind, id, exc) ==
    tcalls' = [tcalls EXCEPT ![t] = Append(@, [kind |-> kind, id |-> id, exc |-> exc])]

\* The constructor step of a method: an exception ends the call, otherwise
\* the thread holds the new object and goes on to the append
Construct(t, kind, id, new) ==
    /\ tpc[t] = "idle"
    /\ BegunUpTo(NumThreads) < MaxCalls
    /\ IF new.exc = "none"
       THEN /\ tpc' = [tpc EXCEPT ![t] = kind]
            /\ tlocal' = [tlocal EXCEPT ![t] = new.obj]
            /\ UNCHANGED tcalls
       ELSE /\ Finish(t, kind, id, new.exc)
            /\ UNCHANGED <<tpc, tlocal>>
    /\ UNCHANGED <<regVars, call, ret, bindVars>>

\* HipExtension.meta in thread t, to the constructor's return
T_meta_new(t) ==
    \E given \in BOOLEAN :
        LET id == S(CallId(t, Len(tcalls[t]) + 1))
        IN  Construct(t, "meta", id,
                      meta_new(IF given THEN id ELSE None, S("c"), None, B(FALSE)))

\* HipExtension.script in thread t, to the constructor's return
T_script_new(t) ==
    LET id == S(CallId(t, Len(tcalls[t]) + 1))
    IN  Construct(t, "script", id,
                  script_new(id, None, B(FALSE), B(FALSE), B(FALSE), None, None, None, None))

\* HipExtension.link in thread t, to the constructor's return
T_link_new(t) ==
    \E rel \in {REL_STYLESHEET, REL_PRELOAD} :
        LET id == S(CallId(t, Len(tcalls[t]) + 1))
        IN  Construct(t, "link", id,
                      link_new(id, rel, B(FALSE), None, None, None, None, None, None,
                               None, None, None, None, None, B(FALSE)))

\* self.metas.append(new_meta) in thread t
T_meta_append(t) ==
    /\ tpc[t] = "meta"
    /\ metas' = ListAppend(metas, tlocal[t])
    /\ Finish(t, "meta", tlocal[t].name, "none")
    /\ tpc' = [tpc EXCEPT ![t] = "idle"]
    /\ tlocal' = [tlocal EXCEPT ![t] = None]
    /\ UNCHANGED <<scripts, links, call, ret, bindVars>>

\* self.scripts.append(new_script) in thread t
T_script_append(t) ==
    /\ tpc[t] = "script"
    /\ scripts' = ListAppend(scripts, tlocal[t])
    /\ Finish(t, "script", tlocal[t].src, "none")
    /\ tpc' = [tpc EXCEPT ![t] = "idle"]
    /\ tlocal' = [tlocal EXCEPT ![t] = None]
    /\ UNCHANGED <<metas, links, call, ret, bindVars>>

\* self.links.append(new_link) in thread t
T_link_append(t) ==
    /\ tpc[t] = "link"
    /\ links' = ListAppend(links, tlocal[t])
    /\ Finish(t, "link", tlocal[t].href, "none")
    /\ tpc' = [tpc EXCEPT ![t] = "idle"]
    /\ tlocal' = [tlocal EXCEPT ![t] = None]
    /\ UNCHANGED <<metas, scripts, call, ret, bindVars>>

NextConc ==
    \/ \E t \in Threads : T_meta_new(t)
    \/ \E t \in Threads : T_script_new(t)
    \/ \E t \in Threads : T_link_new(t)
    \/ \E t \in Threads : T_meta_append(t)
    \/ \E t \in Threads : T_script_append(t)
    \/ \E t \in Threads : T_link_append(t)

SpecConc == Init /\ [][NextConc]_vars

\* ---------------------------------------------------------------- several registries, one application

\* self._get_scripts and the like: a method bound to the object self
BoundMethod(self, fn) == [self |-> self, fn |-> fn]

\* d[k] = v on a dict
DictSet(d, k, v) == [n \in DOMAIN d \cup {k} |-> IF n = k THEN v ELSE d[n]]

\* _init_app, as registering the macros only where none are registered yet
_init_app_KeepMacros(a, self) ==
    LET a1 == IF ~a.has_extensions
              THEN [a EXCEPT !.has_extensions = TRUE, !.extensions_hip = 0]
              ELSE a
        a2 == [a1 EXCEPT !.extensions_hip = self, !.hip = self]
    IN  IF a2.has_macros THEN a2
        ELSE [a2 EXCEPT !.has_macros = TRUE,
                        !.macros = DictSet(DictSet(DictSet([k \in {} |-> 0],
                            "hip_scripts", BoundMethod(self, "_get_scripts")),
                            "hip_links", BoundMethod(self, "_get_links")),
                            "hip_metas", BoundMethod(self, "_get_metas"))]

\* HipExtension._init_app(self, app): the application as the method leaves it
_init_app(a, self) ==
    LET a1 == IF ~a.has_extensions
              THEN [a EXCEPT !.has_extensions = TRUE, !.extensions_hip = 0]
              ELSE a
        a2 == [a1 EXCEPT !.extensions_hip = self, !.hip = self]
        a3 == IF ~a2.has_macros
              THEN [a2 EXCEPT !.has_macros = TRUE, !.macros = [k \in {} |-> 0]]
              ELSE a2
    IN  [a3 EXCEPT !.macros = DictSet(DictSet(DictSet(@,
                        "hip_scripts", BoundMethod(self, "_get_scripts")),
                        "hip_links", BoundMethod(self, "_get_links")),
                        "hip_metas", BoundMethod(self, "_get_metas"))]

\* The lists of a HipExtension object as __init__ creates them
NewHip == [links |-> <<>>, scripts |-> <<>>, metas |-> <<>>]

\* Calling a bound accessor: the live list of the object it is bound to
CallBound(m) ==
    CASE m.fn = "_get_scripts" -> hips[m.self].scripts
      [] m.fn = "_get_links"   -> hips[m.self].links
      [] m.fn = "_get_metas"   -> hips[m.self].metas

\* Tags held by the first n registries
RECURSIVE TagsUpTo(_)
TagsUpTo(n) ==
    IF n = 0 THEN 0
    ELSE Len(hips[n].metas) + Len(hips[n].scripts) + Len(hips[n].links) + TagsUpTo(n - 1)

\* The registries have room for one more tag (the bound of the model).
HipRoom == TagsUpTo(Len(hips)) < MaxTags

\* Arguments the application passes when it registers on one of several registries
BindMetaCalls == {c \in MetaCalls : c.name \in {None, S("description")}}
BindScriptCalls == {c \in ScriptCalls : c.o = ScriptPlain /\ c.static = B(FALSE)}
BindLinkCalls == {c \in LinkCalls : c.o = LinkPlain /\ c.rel = REL_STYLESHEET /\ c.static = B(FALSE)}

\* hip = HipExtension(app): the lists, then self._init_app(app)
Hip_new_bound ==
    /\ Len(hips) < MaxHips
    /\ hips' = Append(hips, NewHip)
    /\ app' = _init_app(app, Len(hips) + 1)
    /\ lastBound' = Len(hips) + 1
    /\ call' = [op |-> "HipExtension", self |-> Len(hips) + 1, app |-> TRUE]
    /\ ret' = [exc |-> "none", val |-> None]
    /\ UNCHANGED <<regVars, threadVars>>

\* hip = HipExtension(): app is None, nothing is bound
Hip_new_unbound ==
    /\ Len(hips) < MaxHips
    /\ hips' = Append(hips, NewHip)
    /\ call' = [op |-> "HipExtension", self |-> Len(hips) + 1, app |-> FALSE]
    /\ ret' = [exc |-> "none", val |-> None]
    /\ UNCHANGED <<app, lastBound, regVars, threadVars>>

\* hip._init_app(app) on an object that exists
Hip_init_app ==
    \E self \in 1..Len(hips) :
        /\ app' = _init_app(app, self)
        /\ lastBound' = self
        /\ call' = [op |-> "_init_app", self |-> self]
        /\ ret' = [exc |-> "none", val |-> None]
        /\ UNCHANGED <<hips, regVars, threadVars>>

\* hip.meta(...) on one of the objects
Hip_meta ==
    \E self \in 1..Len(hips), c \in BindMetaCalls :
        LET new_meta == meta_new(c.name, c.content, c.charset, c.http_equiv)
        IN  /\ new_meta.exc = "none" => HipRoom
            /\ hips' = IF new_meta.exc = "none"
                       THEN [hips EXCEPT ![self].metas = ListAppend(@, new_meta.obj)]
                       ELSE hips
            /\ call' = [op |-> "meta", self |-> self, args |-> c]
            /\ ret' = [exc |-> new_meta.exc, val |-> None]
            /\ UNCHANGED <<app, lastBound, regVars, threadVars>>

\* hip.script(...) on one of the objects
Hip_script ==
    \E self \in 1..Len(hips), c \in BindScriptCalls :
        LET new_script == script_new(c.src, c.o.typ, c.static, c.o.asyn, c.o.defer, c.o.policy, c.o.priority, c.o.integrity, c.o.crossorigin)
        IN  /\ new_script.exc = "none" => HipRoom
            /\ hips' = IF new_script.exc = "none"
                       THEN [hips EXCEPT ![self].scripts = ListAppend(@, new_script.obj)]
                       ELSE hips
            /\ call' = [op |-> "script", self |-> self, args |-> c]
            /\ ret' = [exc |-> new_script.exc, val |-> None]
            /\ UNCHANGED <<app, lastBound, regVars, threadVars>>

\* hip.link(...) on one of the objects
Hip_link ==
    \E self \in 1..Len(hips), c \in BindLinkCalls :
        LET new_link == link_new(c.href, c.rel, c.static, c.a, c.o.typ, c.o.policy, c.o.priority, c.o.integrity, c.o.crossorigin, c.o.sizes, c.o.media, c.lang, c.o.title, c.o.block, c.o.disabled)
        IN  /\ new_link.exc = "none" => HipRoom
            /\ hips' = IF new_link.exc = "none"
                       THEN [hips EXCEPT ![self].links = ListAppend(@, new_link.obj)]
                       ELSE hips
            /\ call' = [op |-> "link", self |-> self, args |-> c]
            /\ ret' = [exc |-> new_link.exc, val |-> None]
            /\ UNCHANGED <<app, lastBound, regVars, threadVars>>

\* a template calls macros.hip_scripts(), macros.hip_links() or macros.hip_metas()
Template_call ==
    \E k \in {"hip_scripts", "hip_links", "hip_metas"} :
        /\ app.has_macros
        /\ k \in DOMAIN app.macros
        /\ call' = [op |-> k]
        /\ ret' = [exc |-> "none", val |-> CallBound(app.macros[k])]
        /\ UNCHANGED <<hips, app, lastBound, regVars, threadVars>>

NextBind ==
    \/ Hip_new_bound
    \/ Hip_new_unbound
    \/ Hip_init_app
    \/ Hip_meta
    \/ Hip_script
    \/ Hip_link
    \/ Template_call

SpecBind == Init /\ [][NextBind]_vars

\* ---------------------------------------------------------------- properties

Last(q) == q[Len(q)]

\* A list of tags without the tags' memoised markup
NoCache(q) ==
    [i \in 1..Len(q) |->
        [f \in DOMAIN q[i] \ {"_cache_meta", "_cache_script", "_cache_link"} |-> q[i][f]]]

\* q2 is q with one element added at the end
Appended(q, q2) == Len(q2) = Len(q) + 1 /\ SubSeq(q2, 1, Len(q)) = q

MetaOps == {"meta", "http_equiv"}
ScriptOps == {"script", "static_script"}
LinkOps == {"link", "static_link"}
AddOps == MetaOps \cup ScriptOps \cup LinkOps

\* rel as a link stores it: a list joined with single spaces
JoinedRel(rel) == IF IsList(rel) THEN S(Join(" ", rel.v)) ELSE rel

\* The two inputs the specification rejects: a meta given neither name nor
\* charset, a preload link given no as
NeitherNameNorCharset(c) ==
    /\ c.op \in MetaOps
    /\ ~Truthy(c.args.name)
    /\ c.op = "meta" => ~Truthy(c.args.charset)
PreloadWithoutAs(c) ==
    /\ c.op \in LinkOps
    /\ JoinedRel(c.args.rel) = REL_PRELOAD
    /\ ~Truthy(c.args.a)

\* C1: every successful registration appends exactly one tag, the one
\* constructed from its arguments, at the end of the list of its own kind and
\* leaves the three lists otherwise as they were (nothing is removed,
\* reordered or deduplicated); what _get_metas, _get_scripts and _get_links
\* return is those lists.  No other step changes the tags or their order.
C1_AppendOnly ==
    [][ LET ok == call'.op \in AddOps /\ ret'.exc = "none"
        IN  /\ (ok /\ call'.op \in MetaOps) =>
                /\ Appended(_get_metas, _get_metas')
                /\ _get_scripts' = _get_scripts /\ _get_links' = _get_links
            /\ (ok /\ call'.op \in ScriptOps) =>
                /\ Appended(_get_scripts, _get_scripts')
                /\ _get_metas' = _get_metas /\ _get_links' = _get_links
            /\ (ok /\ call'.op \in LinkOps) =>
                /\ Appended(_get_links, _get_links')
                /\ _get_metas' = _get_metas /\ _get_scripts' = _get_scripts
            /\ (ok /\ call'.op = "meta") =>
                LET c == call'.args
                IN  Last(_get_metas') = Meta__init__(c.name, c.content, c.charset, c.http_equiv).obj
            /\ ~ok =>
                /\ NoCache(_get_metas') = NoCache(_get_metas)
                /\ NoCache(_get_scripts') = NoCache(_get_scripts)
                /\ NoCache(_get_links') = NoCache(_get_links)
      ]_vars

\* C1 witness: the same meta arguments registered twice are two entries
C1_Witness ==
    /\ call.op = "meta" /\ ret.exc = "none"
    /\ Len(_get_metas) = 2
    /\ _get_metas[1] = _get_metas[2]

\* C2: http_equiv(name, content) appends the meta that
\* meta(name, content, http_equiv=True) appends: its http_equiv flag is true
\* and it has no charset.
C2_HttpEquivIsMetaWithFlag ==
    (call.op = "http_equiv" /\ ret.exc = "none") =>
        /\ Last(metas) = meta_new(call.args.name, call.args.content, None, B(TRUE)).obj
        /\ Truthy(Last(metas).http_equiv)
        /\ ~Truthy(Last(metas).charset)

\* C3: a script registered through script / static_script is, field by field,
\* the Script constructed with the same named values; nomodule, which
\* script() cannot request, is not set.
C3_ScriptStoresNamedArguments ==
    (call.op \in ScriptOps /\ ret.exc = "none") =>
        LET c == call.args
            stored == Last(scripts)
        IN  /\ stored.src = c.src
            /\ stored.typ = c.o.typ
            /\ stored.static = c.static
            /\ stored.asyn = c.o.asyn
            /\ stored.defer = c.o.defer
            /\ ~Truthy(stored.nomodule)
            /\ stored.policy = c.o.policy
            /\ stored.priority = c.o.priority
            /\ stored.integrity = c.o.integrity
            /\ stored.crossorigin = c.o.crossorigin

\* C4: a registration of a meta with neither name nor charset, or of a link
\* whose rel is "preload" with no as, raises ValueError and leaves the three
\* lists as they were; no such tag is in a list afterwards.
C4_InvalidRegistrationRejected ==
    [][ /\ (NeitherNameNorCharset(call') \/ PreloadWithoutAs(call')) =>
                /\ ret'.exc = "ValueError"
                /\ UNCHANGED regVars
        /\ \A i \in 1..Len(metas') :
                Truthy(metas'[i].name) \/ Truthy(metas'[i].charset)
        /\ \A i \in 1..Len(links') :
                links'[i].rel = REL_PRELOAD => Truthy(links'[i].a)
      ]_vars

\* C5: every link in the registry whose stored rel is "preload" has its as
\* attribute set, however rel was given.
C5_PreloadHasAs ==
    \A i \in 1..Len(links) : PyEq(links[i].rel, REL_PRELOAD) => Truthy(links[i].a)

\* C6: a registration fails only with ValueError and only for the two
\* rejected inputs; every other input is accepted, and a link given lang with
\* a rel other than "preload" is appended with that lang.
C6_OnlyTwoFailures ==
    call.op \in AddOps =>
        /\ ret.exc \in {"none", "ValueError"}
        /\ ~(NeitherNameNorCharset(call) \/ PreloadWithoutAs(call)) => ret.exc = "none"
        /\ (call.op \in LinkOps /\ Truthy(call.args.lang)
                /\ JoinedRel(call.args.rel) # REL_PRELOAD) =>
                    /\ ret.exc = "none"
                    /\ Last(links).lang = call.args.lang

\* The markup the specification gives for a meta
MetaMarkup(m) ==
    IF Truthy(m.charset)
    THEN "<meta charset=\"" \o Format(m.charset) \o "\">"
    ELSE "<meta " \o (IF Truthy(m.http_equiv) THEN "http-equiv" ELSE "name")
         \o "=\"" \o Format(m.name) \o "\" content=\"" \o Format(m.content) \o "\">"

\* C7: as_tag() of a meta returns <meta charset="..."> when charset is set,
\* else <meta name="..." content="..."> (http-equiv for name when http_equiv
\* is true), the two attributes one space apart.
C7_MetaMarkupExact ==
    call.op = "Meta.as_tag" => ret.val = S(MetaMarkup(metas[call.i]))

\* C8: every as_tag() call returns what serialising the tag's attributes
\* without the cache returns at the time of the call, static URLs resolved
\* then.
C8_CacheNotObservable ==
    /\ call.op = "Meta.as_tag" => ret.val = Markup(Meta__as_tag(metas[call.i]))
    /\ call.op = "Script.as_tag" =>
            ret.val = Markup(Script__as_tag(scripts[call.i], call.root))
    /\ call.op = "Link.as_tag" =>
            ret.val = Markup(Link__as_tag(links[call.i], call.root))

\* The tags in list q whose identifying attribute (name, src, href) is id
Holding(q, f, id) == {i \in 1..Len(q) : q[i][f] = id}

\* The list and the identifying attribute of a kind of tag
ListOf(kind) ==
    CASE kind = "meta" -> metas [] kind = "script" -> scripts [] kind = "link" -> links
KeyOf(kind) ==
    CASE kind = "meta" -> "name" [] kind = "script" -> "src" [] kind = "link" -> "href"

\* The finished calls of all threads that appended a tag
Succeeded == {<<t, k>> \in Threads \X (1..MaxCalls) : k <= Len(tcalls[t]) /\ tcalls[t][k].exc = "none"}

\* C9: under every interleaving of concurrent add calls, each finished
\* successful call has exactly one element in the list of its kind and none
\* in the others, a failed call has none, the lists hold nothing else, and
\* the elements of one caller are in that caller's call order.
C9_ConcurrentAppends ==
    /\ \A t \in Threads : \A k \in 1..Len(tcalls[t]) :
            LET c == tcalls[t][k]
            IN  \A kind \in {"meta", "script", "link"} :
                    Cardinality(Holding(ListOf(kind), KeyOf(kind), c.id))
                        = IF kind = c.kind /\ c.exc = "none" THEN 1 ELSE 0
    /\ Len(metas) + Len(scripts) + Len(links) = Cardinality(Succeeded)
    /\ \A t \in Threads : \A k1, k2 \in 1..Len(tcalls[t]) :
            LET c1 == tcalls[t][k1]
                c2 == tcalls[t][k2]
            IN  (k1 < k2 /\ c1.kind = c2.kind /\ c1.exc = "none" /\ c2.exc = "none") =>
                    \A i \in Holding(ListOf(c1.kind), KeyOf(c1.kind), c1.id) :
                        \A j \in Holding(ListOf(c2.kind), KeyOf(c2.kind), c2.id) : i < j

\* C9 witness: two callers have appended to the same list, the second
\* between two appends of the first
C9_Witness ==
    /\ Len(metas) = 3
    /\ metas[1].name = S(CallId(1, 1))
    /\ metas[2].name = S(CallId(2, 1))
    /\ metas[3].name = S(CallId(1, 2))

\* C10 as stated: every meta in the registry has exactly one of name and
\* charset, and a meta given both is rejected like a meta given neither.
C10_ExactlyOne ==
    /\ \A i \in 1..Len(metas) : Truthy(metas[i].name) # Truthy(metas[i].charset)
    /\ (call.op = "meta" /\ Truthy(call.args.name) = Truthy(call.args.charset)) =>
            ret.exc = "ValueError"

\* C10 amended: every meta in the registry has at least one of name and
\* charset set (not None, not empty); meta() raises ValueError exactly when
\* given neither, so a meta given both is accepted and stored with both.
C10_AtLeastOne ==
    /\ \A i \in 1..Len(metas) : Truthy(metas[i].name) \/ Truthy(metas[i].charset)
    /\ call.op = "meta" =>
            /\ (ret.exc = "ValueError") <=> NeitherNameNorCharset(call)
            /\ ret.exc \in {"none", "ValueError"}
            /\ (Truthy(call.args.name) /\ Truthy(call.args.charset)) =>
                    /\ Last(metas).name = call.args.name
                    /\ Last(metas).charset = call.args.charset

\* C10 witness: a meta given both name and charset has been registered
C10_Witness ==
    /\ call.op = "meta" /\ ret.exc = "none"
    /\ Truthy(call.args.name) /\ Truthy(call.args.charset)
    /\ Len(metas) > 0
    /\ Truthy(Last(metas).name) /\ Truthy(Last(metas).charset)

\* The accessor each template function is registered for
AccessorOf(k) ==
    CASE k = "hip_scripts" -> "_get_scripts"
      [] k = "hip_links"   -> "_get_links"
      [] k = "hip_metas"   -> "_get_metas"

\* The list of registry r a template function stands for
ListFor(r, k) ==
    CASE k = "hip_scripts" -> hips[r].scripts
      [] k = "hip_links"   -> hips[r].links
      [] k = "hip_metas"   -> hips[r].metas

TemplateFunctions == {"hip_scripts", "hip_links", "hip_metas"}

\* C11: once a registry has been bound to the application, extensions['hip'],
\* app.hip and the three template functions all refer to the registry bound
\* last, each function to the accessor of its own kind; a template call
\* returns that registry's list, so the tags of the registry bound last and
\* none that are only on another registry.
C11_LastBoundRegistry ==
    lastBound # 0 =>
        /\ app.has_extensions /\ app.extensions_hip = lastBound
        /\ app.hip = lastBound
        /\ app.has_macros /\ DOMAIN app.macros = TemplateFunctions
        /\ \A k \in TemplateFunctions :
                app.macros[k] = [self |-> lastBound, fn |-> AccessorOf(k)]
        /\ call.op \in TemplateFunctions =>
                /\ ret.val = ListFor(lastBound, call.op)
                /\ \A r \in 1..Len(hips) : \A i \in 1..Len(ListFor(r, call.op)) :
                        LET tag == ListFor(r, call.op)[i]
                        IN  (\A j \in 1..Len(ListFor(lastBound, call.op)) :
                                    ListFor(lastBound, call.op)[j] # tag)
                                => (\A j \in 1..Len(ret.val) : ret.val[j] # tag)

\* C11 witness: two registries have been bound, each holds a meta the other
\* does not, and hip_metas() has returned the meta of the one bound last
C11_Witness ==
    /\ Len(hips) = 2 /\ lastBound = 2
    /\ call.op = "hip_metas"
    /\ Len(hips[1].metas) = 1 /\ Len(hips[2].metas) = 1
    /\ hips[1].metas[1] # hips[2].metas[1]
    /\ ret.val = <<hips[2].metas[1]>>

====
